---- MODULE Spec2Model ----
(***************************************************************************)
(* OPS Center: the workbench role manager (workbench_role_manager.py),     *)
(* the JSON-RPC dispatcher (rpc_server.py) with its client                 *)
(* (mcp_client.py), and the chat interface's command normalizer and        *)
(* WebSocket endpoint (web_chat_interface.py).                             *)
(***************************************************************************)
EXTENDS Integers, Sequences, FiniteSets, TLC

VARIABLES
    workbench,          \* table workbench: set of rows [id, name]
    workbench_roles,    \* table workbench_roles: rows in insertion (id) order
    role_call,          \* the last WorkbenchRoleManager call and what it returned
    usertaskinfo,       \* table usertaskinfo: rows in insertion (id) order
    rpc_pc,             \* where the RPC round trip in progress stands
    rpc_request,        \* the body POSTed to /rpc
    rpc_response,       \* the HTTP response of /rpc
    rpc_outcome,        \* what the client's call raised or returned
    rpc_previous,       \* the assign_task call the client has just made, if its
                        \* last call was one: its params and the row it inserted
    role_manager,       \* ConnectionManager.role_manager is set (not None)
    mcp_client,         \* ConnectionManager.mcp_client is set (not None)
    chat_call,          \* the last process_command call and what it returned
    llm_processor,      \* ConnectionManager.llm_processor is set (not None)
    llm_enabled,        \* ConnectionManager.llm_enabled
    llm_available,      \* LLMCommandProcessor.available
    conversation_history, \* LLMCommandProcessor.conversation_history (user messages)
    last_command_context, \* ConnectionManager.last_command_context
    active_connections, \* ConnectionManager.active_connections
    ws_pc,              \* where websocket_endpoint stands, per socket
    ws_command,         \* the command of the frame being answered, per socket
    ws_received,        \* the text frames received, per socket
    ws_sent             \* the messages sent, per socket

roleVars == <<workbench, workbench_roles, role_call>>
rpcVars == <<usertaskinfo, rpc_pc, rpc_request, rpc_response, rpc_outcome,
             rpc_previous>>
llmVars == <<llm_processor, llm_enabled, llm_available, conversation_history,
             last_command_context>>
chatVars == <<role_manager, mcp_client, chat_call, llmVars>>
wsVars == <<active_connections, ws_pc, ws_command, ws_received, ws_sent>>
vars == <<roleVars, rpcVars, chatVars, wsVars>>
notRole == <<rpcVars, chatVars, wsVars>>
notRpc == <<roleVars, chatVars, wsVars>>
notChat == <<roleVars, rpcVars, wsVars>>
notWs == <<roleVars, rpcVars, role_manager, mcp_client, chat_call, llmVars>>

None == "None"

(***************************************************************************)
(* Bounds and argument sets                                                *)
(***************************************************************************)
MaxRoleRows == 3
MaxTaskRows == 2

Agents == {"ashish", "chitra"}
AgentOrder == <<"ashish", "chitra">>          \* string order used by ORDER BY agent
DemoWorkbenches == {[id |-> 1, name |-> "Dispute"], [id |-> 2, name |-> "Transaction"]}
AssignWorkbenchArgs == {1}                    \* the workbench roles are assigned in
WorkbenchArgs == {1, 2, 3}                    \* 3 is the id of no workbench row

(***************************************************************************)
(* WorkbenchRoleManager                                                    *)
(***************************************************************************)
STANDARD_ROLES == <<"Assessor", "Reviewer", "Team Lead", "Viewer">>
StandardRoleSet == {STANDARD_ROLES[i] : i \in 1..Len(STANDARD_ROLES)}
AssignedRoles == {"Assessor", "Team Lead"}   \* the roles assigned and removed
RoleArgs == AssignedRoles \cup {"assessor"}  \* "assessor" is no standard role

Matches(row, w, a, r) == row.workbench_id = w /\ row.agent = a /\ row.role = r

\* variant of UniqueViolated: the constraint counts removed assignments too
UniqueViolated_anyrow(tbl, w, a, r) ==
    \E i \in 1..Len(tbl) : Matches(tbl[i], w, a, r)

\* The uniqueness constraint of table workbench_roles: an INSERT raises
\* sqlite3.IntegrityError when an active assignment of the triple exists.
UniqueViolated(tbl, w, a, r) ==
    \E i \in 1..Len(tbl) : Matches(tbl[i], w, a, r) /\ tbl[i].is_active = 1

\* INSERT INTO workbench_roles (workbench_id, agent, role, assigned_by):
\* id is the next rowid, is_active takes the column default 1.
InsertRole(tbl, w, a, r, by) ==
    Append(tbl, [id |-> Len(tbl) + 1, workbench_id |-> w, agent |-> a,
                 role |-> r, assigned_by |-> by, is_active |-> 1])

\* variant of assign_workbench_role: the role is not tested against STANDARD_ROLES
assign_anyrole(tbl, a, w, r, by) ==
    IF UniqueViolated(tbl, w, a, r)
    THEN [raised |-> "", ret |-> FALSE, table |-> tbl]
    ELSE [raised |-> "", ret |-> TRUE, table |-> InsertRole(tbl, w, a, r, by)]

\* variant of assign_workbench_role: the INSERT never raises IntegrityError
assign_unchecked(tbl, a, w, r, by) ==
    IF r \notin StandardRoleSet
    THEN [raised |-> "ValueError", ret |-> FALSE, table |-> tbl]
    ELSE [raised |-> "", ret |-> TRUE, table |-> InsertRole(tbl, w, a, r, by)]

\* variant of assign_workbench_role: IntegrityError is swallowed and True returned
assign_swallowing(tbl, a, w, r, by) ==
    IF r \notin StandardRoleSet
    THEN [raised |-> "ValueError", ret |-> FALSE, table |-> tbl]
    ELSE IF UniqueViolated(tbl, w, a, r)
    THEN [raised |-> "", ret |-> TRUE, table |-> tbl]
    ELSE [raised |-> "", ret |-> TRUE, table |-> InsertRole(tbl, w, a, r, by)]

\* assign_workbench_role: what it raised ("" when it returned), the value
\* returned and the table afterwards
assign_workbench_role(tbl, a, w, r, by) ==
    IF r \notin StandardRoleSet
    THEN [raised |-> "ValueError", ret |-> FALSE, table |-> tbl]
    ELSE IF UniqueViolated(tbl, w, a, r)
    THEN [raised |-> "", ret |-> FALSE, table |-> tbl]
    ELSE [raised |-> "", ret |-> TRUE, table |-> InsertRole(tbl, w, a, r, by)]

\* variant of the UPDATE: a DELETE of the rows with the same WHERE clause
RemoveUpdate_deleting(tbl, w, a, r) ==
    SelectSeq(tbl, LAMBDA row : ~(Matches(row, w, a, r) /\ row.is_active = 1))

\* variant of the UPDATE: its WHERE clause leaves out the role
RemoveUpdate_anyrole(tbl, w, a, r) ==
    [i \in 1..Len(tbl) |->
        IF tbl[i].workbench_id = w /\ tbl[i].agent = a /\ tbl[i].is_active = 1
        THEN [tbl[i] EXCEPT !.is_active = 0] ELSE tbl[i]]

\* UPDATE workbench_roles SET is_active = 0 WHERE ... AND is_active = 1
RemoveUpdate(tbl, w, a, r) ==
    [i \in 1..Len(tbl) |->
        IF Matches(tbl[i], w, a, r) /\ tbl[i].is_active = 1
        THEN [tbl[i] EXCEPT !.is_active = 0] ELSE tbl[i]]

RemoveRowcount(tbl, w, a, r) ==
    Cardinality({i \in 1..Len(tbl) : Matches(tbl[i], w, a, r) /\ tbl[i].is_active = 1})

\* remove_workbench_role: cursor.rowcount > 0 and the table afterwards
remove_workbench_role(tbl, a, w, r) ==
    [ret |-> RemoveRowcount(tbl, w, a, r) > 0, table |-> RemoveUpdate(tbl, w, a, r)]

ActiveIn(tbl, w) ==
    SelectSeq(tbl, LAMBDA row : row.workbench_id = w /\ row.is_active = 1)

RECURSIVE Concat(_, _)
\* f[1] \o f[2] \o ... \o f[n]
Concat(f, n) == IF n = 0 THEN <<>> ELSE Concat(f, n - 1) \o f[n]

\* ORDER BY role, agent (rows of equal key stay in rowid order)
OrderByRoleAgent(rows) ==
    LET nr == Len(STANDARD_ROLES)
        na == Len(AgentOrder)
        group == [k \in 1..(nr * na) |->
                    SelectSeq(rows, LAMBDA row :
                        /\ row.role = STANDARD_ROLES[((k - 1) \div na) + 1]
                        /\ row.agent = AgentOrder[((k - 1) % na) + 1])]
    IN Concat(group, nr * na)

WorkbenchRow(wbs, w) == CHOOSE wb \in wbs : wb.id = w

\* get_workbench_role_assignments
get_workbench_role_assignments(wbs, tbl, w) ==
    IF ~\E wb \in wbs : wb.id = w THEN [kind |-> "None"]
    ELSE IF \E i \in 1..Len(tbl) :
                /\ tbl[i].workbench_id = w /\ tbl[i].is_active = 1
                /\ tbl[i].role \notin StandardRoleSet
         THEN [kind |-> "KeyError"]
    ELSE
        LET assignments == OrderByRoleAgent(ActiveIn(tbl, w))
            entry(row) == [agent |-> row.agent, assigned_by |-> row.assigned_by]
            roles == [r \in StandardRoleSet |->
                        LET ofRole == SelectSeq(assignments, LAMBDA row : row.role = r)
                        IN [i \in 1..Len(ofRole) |-> entry(ofRole[i])]]
        IN [kind |-> "dict",
            workbench_id |-> w,
            workbench_name |-> WorkbenchRow(wbs, w).name,
            roles |-> roles,
            total_assignments |-> Len(assignments),
            missing_roles |-> SelectSeq(STANDARD_ROLES, LAMBDA r : roles[r] = <<>>)]

Min(x, y) == IF x < y THEN x ELSE y

CountRole(rows, r) == Len(SelectSeq(rows, LAMBDA row : row.role = r))

\* variant of CoverageEntry: the percentage is taken of the gaps
CoverageEntry_ofgaps(wb, tbl) ==
    LET joined == ActiveIn(tbl, wb.id)
        total == Len(joined)
        gaps == Len(STANDARD_ROLES) - Min(total, Len(STANDARD_ROLES))
    IN [workbench_id |-> wb.id,
        workbench_name |-> wb.name,
        assessors |-> CountRole(joined, "Assessor"),
        reviewers |-> CountRole(joined, "Reviewer"),
        team_leads |-> CountRole(joined, "Team Lead"),
        viewers |-> CountRole(joined, "Viewer"),
        total_assignments |-> total,
        coverage_percentage |-> (gaps * 100) \div Len(STANDARD_ROLES),
        gaps |-> gaps]

\* one row of the coverage query and the dict built from it
CoverageEntry(wb, tbl) ==
    LET joined == ActiveIn(tbl, wb.id)
        total == Len(joined)
    IN [workbench_id |-> wb.id,
        workbench_name |-> wb.name,
        assessors |-> CountRole(joined, "Assessor"),
        reviewers |-> CountRole(joined, "Reviewer"),
        team_leads |-> CountRole(joined, "Team Lead"),
        viewers |-> CountRole(joined, "Viewer"),
        total_assignments |-> total,
        coverage_percentage |-> (total * 100) \div Len(STANDARD_ROLES),
        gaps |-> Len(STANDARD_ROLES) - Min(total, Len(STANDARD_ROLES))]

RECURSIVE OrderById(_)
\* ORDER BY w.id
OrderById(wbs) ==
    IF wbs = {} THEN <<>>
    ELSE LET first == CHOOSE wb \in wbs : \A o \in wbs : wb.id <= o.id
         IN <<first>> \o OrderById(wbs \ {first})

RECURSIVE SumGaps(_, _)
SumGaps(entries, n) == IF n = 0 THEN 0 ELSE SumGaps(entries, n - 1) + entries[n].gaps

\* get_workbench_coverage_report
get_workbench_coverage_report(wbs, tbl) ==
    LET ordered == OrderById(wbs)
        workbenches == [i \in 1..Len(ordered) |-> CoverageEntry(ordered[i], tbl)]
    IN [workbenches |-> workbenches,
        total_workbenches |-> Len(workbenches),
        total_role_gaps |-> SumGaps(workbenches, Len(workbenches)),
        fully_covered_workbenches |->
            Len(SelectSeq(workbenches, LAMBDA e : e.gaps = 0))]

(***************************************************************************)
(* The role manager as a state machine                                     *)
(***************************************************************************)
RoleInit ==
    /\ workbench = DemoWorkbenches
    /\ workbench_roles = <<>>
    /\ role_call = [op |-> "none"]

AssignStep(a, w, r) ==
    LET res == assign_workbench_role(workbench_roles, a, w, r, "system") IN
    /\ Len(res.table) <= MaxRoleRows
    /\ workbench_roles' = res.table
    /\ role_call' = [op |-> "assign", agent |-> a, workbench_id |-> w,
                     role |-> r, raised |-> res.raised, ret |-> res.ret]
    /\ UNCHANGED <<workbench, notRole>>

RemoveStep(a, w, r) ==
    LET res == remove_workbench_role(workbench_roles, a, w, r) IN
    /\ workbench_roles' = res.table
    /\ role_call' = [op |-> "remove", agent |-> a, workbench_id |-> w,
                     role |-> r, raised |-> "", ret |-> res.ret]
    /\ UNCHANGED <<workbench, notRole>>

AssignWorkbenchRole ==
    \E a \in Agents, w \in AssignWorkbenchArgs, r \in RoleArgs :
        AssignStep(a, w, r)

RemoveWorkbenchRole ==
    \E a \in Agents, w \in AssignWorkbenchArgs, r \in AssignedRoles :
        RemoveStep(a, w, r)

GetWorkbenchRoleAssignments ==
    \E w \in WorkbenchArgs :
        /\ role_call' = [op |-> "get_assignments", workbench_id |-> w,
                         ret |-> get_workbench_role_assignments(
                                     workbench, workbench_roles, w)]
        /\ UNCHANGED <<workbench, workbench_roles, notRole>>

GetWorkbenchCoverageReport ==
    /\ role_call' = [op |-> "coverage",
                     ret |-> get_workbench_coverage_report(workbench, workbench_roles)]
    /\ UNCHANGED <<workbench, workbench_roles, notRole>>

(***************************************************************************)
(* rpc_server.py: the usertaskinfo table and the twelve RPC methods.       *)
(* An Optional[int] is <<>> (None) or <<n>>; an Optional[str] is "None" or *)
(* the string. Timestamps are the marker "utcnow". A handler yields        *)
(* [raised, text, value, table]: whether it raised, str() of the           *)
(* exception, the value returned and the table afterwards.                 *)
(***************************************************************************)
RpcAgents == {"ashish", "chitra"}
TaskIdArgs == {1}                       \* task ids given to assign_task
UpdateTaskIdArgs == {1, 2, -1}          \* 2 is never assigned, -1 is the sentinel id
StatusArgs == {"completed", "in_progress"}
RpcRoleArgs == {"Assessor", "Reviewer", "Team Lead", "Viewer"}
RequestIds == {"1", "null"}             \* JSON ids; "null" is an absent id

Returned(value, tbl) == [raised |-> FALSE, text |-> "", value |-> value, table |-> tbl]
Raised(text, tbl) == [raised |-> TRUE, text |-> text, value |-> [kind |-> "none"], table |-> tbl]

Has(params, name) == name \in params.keys
Arg(params, name, default) == IF Has(params, name) THEN params[name] ELSE default

RowsWhere(tbl, Test(_)) == {i \in 1..Len(tbl) : Test(tbl[i])}

\* UserTaskInfo(...) added and committed: id is the next primary key
InsertTask(tbl, agent, task_id, status, completed_at, workbench_id) ==
    Append(tbl, [id |-> Len(tbl) + 1, agent |-> agent, task_id |-> task_id,
                 status |-> status, created_at |-> "utcnow",
                 completed_at |-> completed_at, workbench_id |-> workbench_id])

get_agent_task_count(tbl, agent) ==
    Returned([agent |-> agent,
              completed_tasks |-> Cardinality(RowsWhere(tbl, LAMBDA t :
                  t.agent = agent /\ t.status = "completed" /\ t.completed_at # None))],
             tbl)

list_recent_tasks(tbl, agent) ==
    Returned([rows |-> RowsWhere(tbl, LAMBDA t :
                  t.agent = agent /\ t.status = "completed")], tbl)

average_completion_time(tbl, agent) ==
    Returned([agent |-> agent,
              rows |-> RowsWhere(tbl, LAMBDA t :
                  t.agent = agent /\ t.status = "completed" /\ t.completed_at # None)],
             tbl)

list_tags(tbl, tenant_id) == Returned([rows |-> {}], tbl)

assign_task(tbl, agent, task_id, workbench_id) ==
    LET after == InsertTask(tbl, agent, task_id, "assigned", None, workbench_id)
    IN Returned(after[Len(after)], after)

FirstWithTaskId(tbl, task_id) ==
    LET hits == RowsWhere(tbl, LAMBDA t : t.task_id = task_id)
    IN IF hits = {} THEN 0 ELSE CHOOSE i \in hits : \A j \in hits : i <= j

update_task_status(tbl, task_id, agent, status) ==
    LET i == FirstWithTaskId(tbl, task_id)
        withAgent == IF agent # None /\ agent # ""
                     THEN [tbl[i] EXCEPT !.agent = agent] ELSE tbl[i]
        withStatus == [withAgent EXCEPT !.status = status]
        task == IF status = "completed"
                THEN [withStatus EXCEPT !.completed_at = "utcnow"] ELSE withStatus
    IN IF i = 0 THEN Raised("404: Task not found", tbl)
       ELSE Returned(task, [tbl EXCEPT ![i] = task])

RECURSIVE Distinct(_, _)
\* SELECT DISTINCT agent: each agent once, in the order of its first row
Distinct(tbl, n) ==
    IF n = 0 THEN <<>>
    ELSE LET before == Distinct(tbl, n - 1)
         IN IF \E k \in 1..Len(before) : before[k] = tbl[n].agent
            THEN before ELSE Append(before, tbl[n].agent)

list_agents(tbl, limit) ==
    LET all == Distinct(tbl, Len(tbl))
        agents == SubSeq(all, 1, Min(limit, Len(all)))
        agent_list == SelectSeq(agents, LAMBDA a : a # None /\ a # "")
    IN Returned([total_agents |-> Len(agent_list), agents |-> agent_list,
                 limit |-> limit], tbl)

get_agent_info(tbl, agent) ==
    LET tasks == RowsWhere(tbl, LAMBDA t : t.agent = agent)
        count(status) == Cardinality({i \in tasks : tbl[i].status = status})
    IN Returned([agent |-> agent, total_tasks |-> Cardinality(tasks),
                 completed_tasks |-> count("completed"),
                 in_progress_tasks |-> count("in_progress"),
                 assigned_tasks |-> count("assigned")], tbl)

get_agent_stats(tbl) ==
    Returned([agents |-> {tbl[i].agent : i \in 1..Len(tbl)} \ {None, ""},
              total_tasks_all_agents |-> Len(tbl),
              total_completed_all_agents |->
                  Cardinality(RowsWhere(tbl, LAMBDA t : t.status = "completed"))], tbl)

\* variant of create_agent: the placeholder is inserted without looking
\* for rows of the agent
create_agent_always(tbl, agent) ==
    LET after == InsertTask(tbl, agent, -1, "agent_created", "utcnow", <<>>)
    IN Returned([agent |-> agent, status |-> "created",
                 registration_id |-> Len(after)], after)

create_agent(tbl, agent) ==
    IF RowsWhere(tbl, LAMBDA t : t.agent = agent) # {}
    THEN Returned([agent |-> agent, status |-> "already_exists"], tbl)
    ELSE LET after == InsertTask(tbl, agent, -1, "agent_created", "utcnow", <<>>)
         IN Returned([agent |-> agent, status |-> "created",
                      registration_id |-> Len(after)], after)

\* role.lower().replace(' ', '_') for the role names of the model
RoleStatus(role) ==
    CASE role = "Assessor" -> "role_assessor"
      [] role = "Reviewer" -> "role_reviewer"
      [] role = "Team Lead" -> "role_team_lead"
      [] role = "Viewer" -> "role_viewer"

\* variant of RoleName: without .title()
RoleName_untitled(status) ==
    CASE status = "role_assessor" -> "assessor"
      [] status = "role_reviewer" -> "reviewer"
      [] status = "role_team_lead" -> "team lead"
      [] status = "role_viewer" -> "viewer"

\* status.replace("role_", "").replace("_", " ").title()
RoleName(status) ==
    CASE status = "role_assessor" -> "Assessor"
      [] status = "role_reviewer" -> "Reviewer"
      [] status = "role_team_lead" -> "Team Lead"
      [] status = "role_viewer" -> "Viewer"

IsRoleStatus(status) ==
    status \in {"role_assessor", "role_reviewer", "role_team_lead", "role_viewer"}

OrZero(opt) == IF opt = <<>> \/ opt = <<0>> THEN 0 ELSE opt[1]

assign_role(tbl, agent, role, workbench_id) ==
    IF RowsWhere(tbl, LAMBDA t : t.agent = agent) = {}
    THEN Returned([agent |-> agent, status |-> "error", role_assigned |-> FALSE], tbl)
    ELSE LET after == InsertTask(tbl, agent, -100 - OrZero(workbench_id),
                                 RoleStatus(role), "utcnow", workbench_id)
         IN Returned([agent |-> agent, role |-> role, workbench_id |-> workbench_id,
                      status |-> "role_assigned", role_id |-> Len(after)], after)

RECURSIVE Reversed(_)
Reversed(seq) == IF seq = <<>> THEN <<>> ELSE Append(Reversed(Tail(seq)), Head(seq))

\* get_agent_roles(agent), agent given: newest first
get_agent_roles(tbl, agent) ==
    LET role_tasks == Reversed(SelectSeq(tbl, LAMBDA t :
                          t.agent = agent /\ IsRoleStatus(t.status)))
        roles == [i \in 1..Len(role_tasks) |->
                    [role |-> RoleName(role_tasks[i].status),
                     workbench_id |-> role_tasks[i].workbench_id,
                     role_id |-> role_tasks[i].id]]
    IN Returned([agent |-> agent, roles |-> roles, total_roles |-> Len(roles)], tbl)

\* get_agent_roles(): every agent's roles
get_all_agent_roles(tbl) ==
    LET holders == {tbl[i].agent : i \in RowsWhere(tbl, LAMBDA t : IsRoleStatus(t.status))}
    IN Returned([all_agents_roles |->
                    [a \in holders |-> get_agent_roles(tbl, a).value.roles],
                 total_agents_with_roles |-> Cardinality(holders)], tbl)

(***************************************************************************)
(* handle_rpc: validation of the envelope, dispatch, error translation     *)
(***************************************************************************)
KnownMethods ==
    {"get_agent_task_count", "list_recent_tasks", "average_completion_time",
     "list_tags", "assign_task", "update_task_status", "list_agents",
     "get_agent_info", "get_agent_stats", "create_agent", "assign_role",
     "get_agent_roles"}

\* the keyword parameters of each handler: those without and with a default
Signature(method) ==
    CASE method = "get_agent_task_count" -> [required |-> {"agent"}, optional |-> {"days"}]
      [] method = "list_recent_tasks" -> [required |-> {"agent"}, optional |-> {"limit"}]
      [] method = "average_completion_time" -> [required |-> {"agent"}, optional |-> {}]
      [] method = "list_tags" -> [required |-> {"tenant_id"}, optional |-> {}]
      [] method = "assign_task" ->
            [required |-> {"agent", "task_id"}, optional |-> {"workbench_id"}]
      [] method = "update_task_status" ->
            [required |-> {"task_id"}, optional |-> {"agent", "status"}]
      [] method = "list_agents" -> [required |-> {}, optional |-> {"limit"}]
      [] method = "get_agent_info" -> [required |-> {"agent"}, optional |-> {}]
      [] method = "get_agent_stats" -> [required |-> {}, optional |-> {"days"}]
      [] method = "create_agent" -> [required |-> {"agent"}, optional |-> {}]
      [] method = "assign_role" ->
            [required |-> {"agent", "role"},
             optional |-> {"workbench_id", "workbench_name"}]
      [] method = "get_agent_roles" -> [required |-> {}, optional |-> {"agent"}]

\* handler(**params): Python's TypeError for a keyword the handler does not
\* take or a parameter without default that is not given, else the handler
Invoke(tbl, method, params) ==
    LET sig == Signature(method) IN
    IF ~(params.keys \subseteq sig.required \cup sig.optional)
    THEN Raised("TypeError: got an unexpected keyword argument", tbl)
    ELSE IF ~(sig.required \subseteq params.keys)
    THEN Raised("TypeError: missing required positional argument", tbl)
    ELSE
    CASE method = "get_agent_task_count" -> get_agent_task_count(tbl, params.agent)
      [] method = "list_recent_tasks" -> list_recent_tasks(tbl, params.agent)
      [] method = "average_completion_time" -> average_completion_time(tbl, params.agent)
      [] method = "list_tags" -> list_tags(tbl, params.tenant_id)
      [] method = "assign_task" ->
            assign_task(tbl, params.agent, params.task_id, Arg(params, "workbench_id", <<>>))
      [] method = "update_task_status" ->
            update_task_status(tbl, params.task_id, Arg(params, "agent", None),
                               Arg(params, "status", "completed"))
      [] method = "list_agents" -> list_agents(tbl, Arg(params, "limit", 100))
      [] method = "get_agent_info" -> get_agent_info(tbl, params.agent)
      [] method = "get_agent_stats" -> get_agent_stats(tbl)
      [] method = "create_agent" -> create_agent(tbl, params.agent)
      [] method = "assign_role" ->
            assign_role(tbl, params.agent, params.role, Arg(params, "workbench_id", <<>>))
      [] method = "get_agent_roles" ->
            IF Arg(params, "agent", None) \in {None, ""}
            THEN get_all_agent_roles(tbl)
            ELSE get_agent_roles(tbl, params.agent)

NoParams == [kind |-> "dict", keys |-> {}]

\* JSONRPCRequest(**req_data): jsonrpc and method are required strings,
\* params an optional dict, id optional
Validates(body) ==
    /\ body.has_jsonrpc
    /\ body.has_method
    /\ body.params.kind \in {"dict", "null", "absent"}

NullResult == [kind |-> "null"]
NoError == [kind |-> "null"]

\* variant of JSONRPCResponse: built without id=rpc_request.id
JSONRPCResponse_noid(result, error, id) ==
    [http |-> 200, jsonrpc |-> "2.0", result |-> result, error |-> error, id |-> "null"]

JSONRPCResponse(result, error, id) ==
    [http |-> 200, jsonrpc |-> "2.0", result |-> result, error |-> error, id |-> id]

\* an exception that leaves handle_rpc: the framework answers 500
InternalServerError == [http |-> 500]

\* handle_rpc: the HTTP response and the table afterwards
handle_rpc(tbl, body) ==
    IF ~Validates(body) THEN [response |-> InternalServerError, table |-> tbl]
    ELSE
    LET params == IF body.params.kind = "dict" THEN body.params ELSE NoParams
    IN IF body.method \notin KnownMethods
       THEN [response |-> JSONRPCResponse(NullResult,
                            [kind |-> "error", code |-> -32601,
                             message |-> "Method not found"], body.id),
             table |-> tbl]
       ELSE LET out == Invoke(tbl, body.method, params)
            IN IF out.raised
               THEN [response |-> JSONRPCResponse(NullResult,
                                    [kind |-> "error", code |-> -32000,
                                     message |-> out.text], body.id),
                     table |-> out.table]
               ELSE [response |-> JSONRPCResponse(
                                    [kind |-> "value", value |-> out.value],
                                    NoError, body.id),
                     table |-> out.table]

(***************************************************************************)
(* mcp_client.py                                                           *)
(***************************************************************************)
\* _create_rpc_request; id is the value of the client's request counter
create_rpc_request(method, params, id) ==
    [has_jsonrpc |-> TRUE, has_method |-> TRUE, method |-> method,
     params |-> params, id |-> id]

\* response.raise_for_status() and _handle_rpc_response
handle_rpc_response(response) ==
    IF response.http # 200
    THEN [raised |-> TRUE, text |-> "HTTPError", value |-> NullResult]
    ELSE IF response.error.kind # "null"
    THEN [raised |-> TRUE, text |-> "RPC Error", value |-> NullResult]
    ELSE [raised |-> FALSE, text |-> "", value |-> response.result]

(***************************************************************************)
(* The requests of the model                                               *)
(***************************************************************************)
UnknownMethods == {"invalid_method", "Assign_Task"}

\* the params each client method builds, over the argument sets
ClientParams(method) ==
    CASE method = "get_agent_task_count" ->
            {[kind |-> "dict", keys |-> {"agent", "days"}, agent |-> a, days |-> 3] :
                a \in RpcAgents}
      [] method = "list_recent_tasks" ->
            {[kind |-> "dict", keys |-> {"agent", "limit"}, agent |-> a, limit |-> 5] :
                a \in RpcAgents}
      [] method = "average_completion_time" ->
            {[kind |-> "dict", keys |-> {"agent"}, agent |-> a] : a \in RpcAgents}
      [] method = "list_tags" ->
            {[kind |-> "dict", keys |-> {"tenant_id"}, tenant_id |-> 1]}
      [] method = "assign_task" ->
            {[kind |-> "dict", keys |-> {"agent", "task_id"}, agent |-> a, task_id |-> t] :
                a \in RpcAgents, t \in TaskIdArgs}
      [] method = "update_task_status" ->
            {[kind |-> "dict", keys |-> {"task_id", "status"}, task_id |-> t, status |-> s] :
                t \in UpdateTaskIdArgs, s \in StatusArgs}
            \cup
            {[kind |-> "dict", keys |-> {"task_id", "status", "agent"}, task_id |-> t,
              status |-> s, agent |-> "chitra"] :
                t \in UpdateTaskIdArgs, s \in StatusArgs}
      [] method = "list_agents" ->
            {[kind |-> "dict", keys |-> {"limit"}, limit |-> n] : n \in {1, 100}}
      [] method = "get_agent_info" ->
            {[kind |-> "dict", keys |-> {"agent"}, agent |-> a] : a \in RpcAgents}
      [] method = "get_agent_stats" ->
            {[kind |-> "dict", keys |-> {"days"}, days |-> 7]}
      [] method = "create_agent" ->
            {[kind |-> "dict", keys |-> {"agent"}, agent |-> a] : a \in RpcAgents}
      [] method = "assign_role" ->
            {[kind |-> "dict", keys |-> {"agent", "role"}, agent |-> a, role |-> r] :
                a \in RpcAgents, r \in RpcRoleArgs}
            \cup
            {[kind |-> "dict", keys |-> {"agent", "role", "workbench_id"}, agent |-> a,
              role |-> r, workbench_id |-> <<1>>] :
                a \in RpcAgents, r \in RpcRoleArgs}
      [] method = "get_agent_roles" ->
            {NoParams} \cup
            {[kind |-> "dict", keys |-> {"agent"}, agent |-> a] : a \in RpcAgents}
      [] OTHER -> {NoParams}

\* params a caller of _sync_rpc_call may pass besides those
OddParams == {NoParams, [kind |-> "dict", keys |-> {"bogus"}, bogus |-> 1]}

\* bodies no MCPClient sends: a field missing, params null or not an object
RawBodies ==
    {[has_jsonrpc |-> j, has_method |-> m, method |-> IF m THEN name ELSE "",
      params |-> [kind |-> k, keys |-> {}], id |-> "1"] :
        j \in BOOLEAN, m \in BOOLEAN, name \in {"list_agents", "invalid_method"},
        k \in {"dict", "null", "absent", "list"}}

NoMessage == [kind |-> "none"]

RpcInit ==
    /\ usertaskinfo = <<>>
    /\ rpc_pc = "idle"
    /\ rpc_request = NoMessage
    /\ rpc_response = NoMessage
    /\ rpc_outcome = NoMessage
    /\ rpc_previous = NoMessage

\* requests that would grow the table beyond the bound are not sent
WithinBound(body) == Len(handle_rpc(usertaskinfo, body).table) <= MaxTaskRows

\* MCPClient._sync_rpc_call up to requests.post
ClientCall ==
    /\ rpc_pc = "idle"
    /\ \E method \in KnownMethods \cup UnknownMethods, id \in RequestIds :
        \E params \in ClientParams(method) \cup OddParams :
            /\ WithinBound(create_rpc_request(method, params, id))
            /\ rpc_request' = create_rpc_request(method, params, id)
    /\ rpc_pc' = "posted"
    /\ UNCHANGED <<usertaskinfo, rpc_response, rpc_outcome, rpc_previous, notRpc>>

\* any other HTTP client
RawPost ==
    /\ rpc_pc = "idle"
    /\ \E body \in RawBodies : rpc_request' = body
    /\ rpc_pc' = "posted"
    /\ UNCHANGED <<usertaskinfo, rpc_response, rpc_outcome, rpc_previous, notRpc>>

\* the server's handle_rpc
HandleRpc ==
    /\ rpc_pc = "posted"
    /\ LET res == handle_rpc(usertaskinfo, rpc_request) IN
        /\ usertaskinfo' = res.table
        /\ rpc_response' = res.response
    /\ rpc_pc' = "responded"
    /\ UNCHANGED <<rpc_request, rpc_outcome, rpc_previous, notRpc>>

\* MCPClient._sync_rpc_call from raise_for_status on
ClientReceive ==
    /\ rpc_pc = "responded"
    /\ rpc_outcome' = handle_rpc_response(rpc_response)
    /\ rpc_pc' = "returned"
    /\ UNCHANGED <<usertaskinfo, rpc_request, rpc_response, rpc_previous, notRpc>>

\* the caller goes on to its next statement
ClientDone ==
    /\ rpc_pc = "returned"
    /\ rpc_pc' = "idle"
    /\ rpc_previous' = IF rpc_request.method = "assign_task" /\ ~rpc_outcome.raised
                       THEN [kind |-> "assign_task", params |-> rpc_request.params,
                             row |-> Len(usertaskinfo)]
                       ELSE NoMessage
    /\ rpc_request' = NoMessage
    /\ rpc_response' = NoMessage
    /\ rpc_outcome' = NoMessage
    /\ UNCHANGED <<usertaskinfo, notRpc>>

(***************************************************************************)
(* web_chat_interface.py: the command normalizer and process_command.      *)
(* A command is the sequence of its words (command.split()), the words     *)
(* being separated by single spaces in the string; command_lower is the    *)
(* sequence of the lowered words.                                          *)
(***************************************************************************)
MaxWords == 4

Vocabulary == {"roles", "Roles", "show", "please", "display", "their", "agent", "2", "3"}
Commands == UNION {[1..n -> Vocabulary] : n \in 0..MaxWords}

\* str.lower() on the words of the model
Lower(word) ==
    CASE word = "Roles" -> "roles"
      [] word = "Assessor" -> "assessor"
      [] word = "Reviewer" -> "reviewer"
      [] word = "Team" -> "team"
      [] word = "Lead" -> "lead"
      [] word = "Viewer" -> "viewer"
      [] OTHER -> word

lower(words) == [i \in 1..Len(words) |-> Lower(words[i])]

\* the words of the model of which a word of a tested phrase is a proper
\* prefix, suffix or infix: <<word, part>>
ProperPrefixes ==
    {<<"roles", "role">>, <<"agent-roles", "agent">>, <<"workbenches", "workbench">>}
ProperSuffixes ==
    {<<"show", "how">>, <<"agent-roles", "roles">>, <<"assign-role", "role">>}
ProperInfixes == {}

StartsWith(word, part) == word = part \/ <<word, part>> \in ProperPrefixes
EndsWith(word, part) == word = part \/ <<word, part>> \in ProperSuffixes
HasInfix(word, part) ==
    \/ StartsWith(word, part)
    \/ EndsWith(word, part)
    \/ <<word, part>> \in ProperInfixes

\* phrase in command_lower, for a phrase of two or more words: the phrase's
\* first word ends a word of the command, its last word starts a later one
\* and the words between are the same
Contains(command_lower, phrase) ==
    LET n == Len(phrase) IN
    \E i \in 1..(Len(command_lower) - n + 1) :
        /\ EndsWith(command_lower[i], phrase[1])
        /\ StartsWith(command_lower[i + n - 1], phrase[n])
        /\ \A k \in 2..(n - 1) : command_lower[i + k - 1] = phrase[k]

\* phrase in command_lower, for a phrase of one word
ContainsWord(command_lower, part) ==
    \E i \in 1..Len(command_lower) : HasInfix(command_lower[i], part)

\* any(phrase in command_lower for phrase in phrases)
AnyIn(command_lower, phrases) == \E phrase \in phrases : Contains(command_lower, phrase)

Greetings ==
    {<<"hi">>, <<"hello">>, <<"hey">>, <<"good", "morning">>,
     <<"good", "afternoon">>, <<"good", "evening">>}
Thanks == {<<"thanks">>, <<"thank", "you">>, <<"thanks!">>, <<"thank", "you!">>}
Goodbyes == {<<"bye">>, <<"goodbye">>, <<"see", "you">>, <<"exit">>, <<"quit">>}
StatusPhrases == {<<"how", "are", "you">>, <<"how's", "it", "going">>, <<"what's", "up">>}
ContextPhrases ==
    {<<"their", "assigned">>, <<"their", "workbenches">>, <<"their", "roles">>,
     <<"assigned", "workbenches">>, <<"workbench", "assignments">>,
     <<"they", "are", "assigned", "to">>, <<"where", "are", "they", "assigned">>,
     <<"their", "assignments">>}
ContextCommands ==
    {<<"their", "workbenches">>, <<"workbenches">>, <<"assignments">>,
     <<"where", "are", "they">>, <<"assigned", "to">>}
CountAgentsPhrases ==
    {<<"how", "many", "agents">>, <<"count", "agents">>,
     <<"number", "of", "agents">>, <<"total", "agents">>}
CountWorkbenchesPhrases ==
    {<<"how", "many", "workbenches">>, <<"count", "workbenches">>,
     <<"number", "of", "workbenches">>, <<"total", "workbenches">>}
DetailsPhrases ==
    {<<"details", "about">>, <<"info", "about">>, <<"information", "about">>,
     <<"tell", "me", "about">>}
WhatAgentsPhrases ==
    {<<"what", "agents">>, <<"which", "agents">>, <<"who", "are", "the", "agents">>}
WhatWorkbenchesPhrases ==
    {<<"what", "workbenches">>, <<"which", "workbenches">>,
     <<"what", "are", "the", "workbenches">>}
ListWorkbenchesPhrases ==
    {<<"show", "list", "of", "all", "workbenches">>, <<"list", "all", "workbenches">>,
     <<"show", "workbenches">>, <<"list", "workbenches">>}
ListAgentsPhrases ==
    {<<"show", "list", "of", "all", "agents">>, <<"list", "all", "agents">>,
     <<"show", "agents">>, <<"list", "agents">>}
RolesPhrases ==
    {<<"show", "roles">>, <<"list", "roles">>, <<"roles", "in">>, <<"workbench", "roles">>}
CoveragePhrases ==
    {<<"show", "coverage">>, <<"coverage", "report">>, <<"role", "coverage">>}
AgentRolesPhrases ==
    {<<"show", "agent", "roles">>, <<"agent", "roles">>, <<"roles", "for">>}
CreateAgentPhrases == {<<"create", "agent">>, <<"new", "agent">>, <<"add", "agent">>}
CreateWorkbenchPhrases ==
    {<<"create", "workbench">>, <<"new", "workbench">>, <<"add", "workbench">>}
CreateWorkflowPhrases ==
    {<<"create", "workflow">>, <<"new", "workflow">>, <<"add", "workflow">>,
     <<"workflow", "for">>}
CreateTaskPhrases == {<<"create", "task">>, <<"new", "task">>, <<"add", "task">>}
AssignRolePhrases == {<<"assign", "role">>, <<"give", "role">>, <<"set", "role">>}

\* aliases.get(action, action)
Alias(action) ==
    CASE action \in {"show", "list", "display", "view"} -> "workbenches"
      [] action \in {"get", "fetch"} -> "agents"
      [] action \in {"details", "info", "about"} -> "agent-roles"
      [] action \in {"how", "what", "which", "who", "count", "total"} -> "agents"
      [] OTHER -> action

\* normalize_command: the first test that matches decides
normalize_command(command_lower, parts) ==
    IF command_lower \in Greetings THEN "greeting"
    ELSE IF command_lower \in Thanks THEN "thanks"
    ELSE IF command_lower \in Goodbyes THEN "goodbye"
    ELSE IF AnyIn(command_lower, StatusPhrases) THEN "status"
    ELSE IF AnyIn(command_lower, ContextPhrases) THEN "agent-workbench-summary"
    ELSE IF command_lower \in ContextCommands THEN "agent-workbench-summary"
    ELSE IF AnyIn(command_lower, CountAgentsPhrases) THEN "agents"
    ELSE IF AnyIn(command_lower, CountWorkbenchesPhrases) THEN "workbenches"
    ELSE IF AnyIn(command_lower, DetailsPhrases) THEN "agent-roles"
    ELSE IF AnyIn(command_lower, WhatAgentsPhrases) THEN "agents"
    ELSE IF AnyIn(command_lower, WhatWorkbenchesPhrases) THEN "workbenches"
    ELSE IF AnyIn(command_lower, ListWorkbenchesPhrases) THEN "workbenches"
    ELSE IF AnyIn(command_lower, ListAgentsPhrases) THEN "agents"
    ELSE IF AnyIn(command_lower, RolesPhrases) THEN "roles"
    ELSE IF AnyIn(command_lower, CoveragePhrases) THEN "coverage"
    ELSE IF AnyIn(command_lower, AgentRolesPhrases) THEN "agent-roles"
    ELSE IF AnyIn(command_lower, CreateAgentPhrases) THEN "create-agent"
    ELSE IF AnyIn(command_lower, CreateWorkbenchPhrases) THEN "create-workbench"
    ELSE IF AnyIn(command_lower, CreateWorkflowPhrases) THEN "create-workbench"
    ELSE IF AnyIn(command_lower, CreateTaskPhrases) THEN "create-task"
    ELSE IF AnyIn(command_lower, AssignRolePhrases) THEN "assign-role"
    ELSE IF parts = <<>> THEN ""
    ELSE Alias(Lower(parts[1]))

\* re.findall(r'\d+', word) as integers, for the words of the model
Numbers(word) ==
    CASE word = "0" -> <<0>>
      [] word = "1" -> <<1>>
      [] word = "2" -> <<2>>
      [] word = "3" -> <<3>>
      [] word = "5" -> <<5>>
      [] OTHER -> <<>>

\* int(word): <<n>>, or <<>> for ValueError
IntOf(word) == Numbers(word)

\* variant of extract_workbench_id: the last number of the command is taken
extract_last_number(command, parts) ==
    LET numbers == Concat([i \in 1..Len(command) |-> Numbers(command[i])], Len(command))
    IN IF numbers # <<>> THEN <<numbers[Len(numbers)]>> ELSE <<>>

\* extract_workbench_id: <<id>>, or <<>> for None
extract_workbench_id(command, parts) ==
    LET numbers == Concat([i \in 1..Len(command) |-> Numbers(command[i])], Len(command))
    IN IF numbers # <<>> THEN <<numbers[1]>>
       ELSE IF Len(parts) > 1 THEN IntOf(parts[2])
       ELSE <<>>

\* the word after the first word that is, lowered, one of keys and has a
\* successor: <<word>>, or <<>> when the loop ends without returning
WordAfter(words, keys) ==
    LET hits == {i \in 1..(Len(words) - 1) : Lower(words[i]) \in keys}
    IN IF hits = {} THEN <<>>
       ELSE <<words[(CHOOSE i \in hits : \A j \in hits : i <= j) + 1]>>

\* extract_agent_name: the name, "" when there is none
extract_agent_name(command, parts) ==
    LET cl == lower(command)
        afterFor == IF Contains(cl, <<"roles", "for">>)
                    THEN WordAfter(command, {"for"}) ELSE <<>>
        afterAbout == IF AnyIn(cl, DetailsPhrases)
                      THEN WordAfter(command, {"about"}) ELSE <<>>
        afterKey == IF \E key \in {"about", "details", "info"} : ContainsWord(cl, key)
                    THEN WordAfter(command, {"about", "details", "info"}) ELSE <<>>
    IN IF afterFor # <<>> THEN afterFor[1]
       ELSE IF afterAbout # <<>> THEN afterAbout[1]
       ELSE IF afterKey # <<>> THEN afterKey[1]
       ELSE IF Len(parts) > 1 THEN parts[2]
       ELSE ""

\* WorkbenchRoleManager.get_agent_workbench_roles: the agent's active rows
\* joined with workbench, ORDER BY w.name, wr.role (the names of the model's
\* workbenches are in the order of their ids)
get_agent_workbench_roles(wbs, tbl, agent) ==
    LET ordered == OrderById(wbs)
        ofWorkbench(wb) ==
            LET rows == SelectSeq(ActiveIn(tbl, wb.id), LAMBDA row : row.agent = agent)
                byRole == [k \in 1..Len(STANDARD_ROLES) |->
                             SelectSeq(rows, LAMBDA row : row.role = STANDARD_ROLES[k])]
                sorted == Concat(byRole, Len(STANDARD_ROLES))
            IN [i \in 1..Len(sorted) |->
                    [workbench_name |-> wb.name, role |-> sorted[i].role,
                     workbench_id |-> wb.id]]
    IN Concat([k \in 1..Len(ordered) |-> ofWorkbench(ordered[k])], Len(ordered))

\* SELECT DISTINCT agent FROM usertaskinfo WHERE agent != "" ORDER BY agent
AgentsByName(tasks) ==
    SelectSeq(AgentOrder, LAMBDA a : \E i \in 1..Len(tasks) : tasks[i].agent = a)

\* get_all_agent_workbench_assignments
get_all_agent_workbench_assignments(wbs, tbl, tasks) ==
    LET agents == AgentsByName(tasks)
    IN [agents |-> agents,
        assignments |-> [i \in 1..Len(agents) |->
                            get_agent_workbench_roles(wbs, tbl, agents[i])],
        workbench_names |-> OrderById(wbs),
        total_agents |-> Len(agents)]

\* get_demo_data("workbenches")
DemoData ==
    <<[id |-> 1, name |-> "Dispute"], [id |-> 2, name |-> "Transaction"],
      [id |-> 3, name |-> "Account Holder"], [id |-> 4, name |-> "Loan"]>>

\* what process_command returns: {"error": ...} or {"type": ..., ...}
Error(text) == [kind |-> "error", error |-> text]
Result(type, data) == [kind |-> "result", type |-> type, data |-> data]
NoData == [kind |-> "none"]

\* process_command yields the dict returned and the calls made to the role
\* manager and the MCP client, in order
Answer(result, calls) == [result |-> result, calls |-> calls]

NotAvailable == Error("Workbench role manager not available")
SpecifyWorkbench == Error("Please specify workbench ID. Example: roles 1 or show roles 1")

\* the branch of process_command for action "roles"
RolesBranch(rm, wbs, tbl, command, parts) ==
    LET workbench_id == extract_workbench_id(command, parts) IN
    IF workbench_id = <<>> THEN Answer(SpecifyWorkbench, <<>>)
    ELSE IF ~rm THEN Answer(NotAvailable, <<>>)
    ELSE LET assignments == get_workbench_role_assignments(wbs, tbl, workbench_id[1])
             calls == <<[op |-> "get_workbench_role_assignments",
                         workbench_id |-> workbench_id[1]]>>
         IN IF assignments.kind = "KeyError"
            THEN Answer(Error("Could not get workbench roles"), calls)
            ELSE Answer(Result("workbench_roles", assignments), calls)

\* the branch of process_command for action "agent-roles"
AgentRolesBranch(rm, mcp, wbs, tbl, command, parts) ==
    LET agent == extract_agent_name(command, parts)
        is_details_request == AnyIn(lower(command), DetailsPhrases)
        asked == <<[op |-> "get_agent_workbench_roles", agent |-> agent]>>
        tasks == <<[op |-> "mcp_client.get_agent_task_count", agent |-> agent],
                   [op |-> "mcp_client.list_recent_tasks", agent |-> agent]>>
    IN IF agent = "" THEN Answer(Error("Please specify agent name"), <<>>)
       ELSE IF ~rm THEN Answer(NotAvailable, <<>>)
       ELSE Answer(Result("agent_roles",
                          [agent |-> agent,
                           roles |-> get_agent_workbench_roles(wbs, tbl, agent),
                           is_details_request |-> is_details_request]),
                   IF mcp /\ is_details_request THEN asked \o tasks ELSE asked)

\* the branch of process_command for action "agent-workbench-summary"
SummaryBranch(rm, wbs, tbl, tasks) ==
    LET agents == AgentsByName(tasks) IN
    IF ~rm THEN Answer(NotAvailable, <<>>)
    ELSE Answer(Result("agent_workbench_summary",
                       get_all_agent_workbench_assignments(wbs, tbl, tasks)),
                [i \in 1..Len(agents) |->
                    [op |-> "get_agent_workbench_roles", agent |-> agents[i]]])

\* \w+ matches the whole of the word
IsWord(word) == word \notin {"agent-roles", "assign-role", "llm-toggle"}

\* re.search of (?:assign|give)\s+role\s+(\w+)\s+to\s+(\w+)\s+in\s+workbench\s+(\d+)
\* with re.IGNORECASE: the positions where a match starts
RoleToAgentMatches(command) ==
    LET cl == lower(command) IN
    {i \in 1..(Len(command) - 7) :
        /\ EndsWith(cl[i], "assign") \/ EndsWith(cl[i], "give")
        /\ cl[i + 1] = "role" /\ IsWord(command[i + 2])
        /\ cl[i + 3] = "to" /\ IsWord(command[i + 4])
        /\ cl[i + 5] = "in" /\ cl[i + 6] = "workbench"
        /\ Numbers(command[i + 7]) # <<>>}

\* extract_assign_role_params: <<agent, workbench_id, role>>, or <<>> for
\* (None, None, None)
extract_assign_role_params(command, parts) ==
    LET cl == lower(command)
        natural == Contains(cl, <<"assign", "role">>) \/ Contains(cl, <<"give", "role">>)
        matches == RoleToAgentMatches(command)
        first == CHOOSE i \in matches : \A j \in matches : i <= j
        standard == IF Len(parts) > 3 /\ IntOf(parts[3]) # <<>>
                    THEN <<parts[2], IntOf(parts[3])[1], parts[4]>>
                    ELSE <<>>
    IN IF natural /\ matches # {}
       THEN <<command[first + 4], Numbers(command[first + 7])[1], command[first + 2]>>
       ELSE IF natural /\ Len(command) >= 5 /\ IntOf(command[4]) # <<>>
       THEN <<command[3], IntOf(command[4])[1], command[5]>>
       ELSE standard

SpecifyAssignment ==
    Error("Please specify agent, workbench ID, and role. Example: assign-role ashish 1 Assessor")

\* the branch of process_command for action "assign-role": the answer and
\* table workbench_roles afterwards
AssignRoleBranch(rm, tbl, command, parts, user) ==
    LET params == extract_assign_role_params(command, parts) IN
    IF params = <<>> \/ params[2] = 0
    THEN [answer |-> Answer(SpecifyAssignment, <<>>), table |-> tbl]
    ELSE IF ~rm THEN [answer |-> Answer(NotAvailable, <<>>), table |-> tbl]
    ELSE LET res == assign_workbench_role(tbl, params[1], params[2], params[3], user)
             calls == <<[op |-> "assign_workbench_role", agent |-> params[1],
                         workbench_id |-> params[2], role |-> params[3]]>>
             result == IF res.raised # "" THEN Error("Could not assign role")
                       ELSE IF res.ret THEN Result("role_assignment", NoData)
                       ELSE Error("Role assignment failed (may already exist)")
         IN [answer |-> Answer(result, calls), table |-> res.table]

\* the actions process_command has a branch for
HandledActions ==
    {"help", "greeting", "thanks", "goodbye", "status", "prompts", "suggestions",
     "create-agent", "create-workbench", "create-task", "agents", "workbenches",
     "roles", "assign-role", "agent-roles", "coverage", "agent-workbench-summary",
     "llm-status", "llm-toggle", "llm-clear", "tasks", "assign", "stats"}

\* the fields of the ConnectionManager that process_command reads
Manager(rm, mcp, llm, enabled, available, history, context) ==
    [role_manager |-> rm, mcp_client |-> mcp, llm_processor |-> llm,
     llm_enabled |-> enabled, llm_available |-> available,
     conversation_history |-> history, last_command_context |-> context]

\* what a call of process_command leaves: the dict returned, the calls made
\* to the role manager and the MCP client, table workbench_roles and the
\* fields of the manager it may assign
Outcome(answer, self, tbl) ==
    [result |-> answer.result, calls |-> answer.calls, workbench_roles |-> tbl,
     llm_enabled |-> self.llm_enabled,
     conversation_history |-> self.conversation_history,
     last_command_context |-> self.last_command_context]

NoLlm == Error("LLM integration not available")

\* process_command from "Rule-based processing" on, for the commands of the
\* model: the branches of the actions these commands are normalized to
rule_based_processing(self, wbs, tbl, tasks, command, user) ==
    LET parts == command
        action == normalize_command(lower(command), parts)
        rm == self.role_manager
        mcp == self.mcp_client
        plain(answer) == Outcome(answer, self, tbl)
    IN IF parts = <<>> THEN plain(Answer(Error("Empty command"), <<>>))
       ELSE IF action \notin HandledActions
       THEN plain(Answer(Error("Unknown command"), <<>>))
       ELSE
       CASE action = "help" -> plain(Answer(Result("help", NoData), <<>>))
         [] action = "greeting" -> plain(Answer(Result("welcome", NoData), <<>>))
         \* the first branch for "status" answers; the later one, which would
         \* call mcp_client.update_task_status, is never reached
         [] action \in {"thanks", "goodbye", "status"} ->
                plain(Answer(Result("conversational", NoData), <<>>))
         [] action \in {"prompts", "suggestions"} ->
                plain(Answer(Result("suggested_prompts", NoData), <<>>))
         [] action = "workbenches" ->
                plain(Answer(Result("workbenches",
                                    IF rm THEN OrderById(wbs) ELSE DemoData), <<>>))
         [] action = "roles" -> plain(RolesBranch(rm, wbs, tbl, command, parts))
         [] action = "assign-role" ->
                LET branch == AssignRoleBranch(rm, tbl, command, parts, user)
                IN [plain(branch.answer) EXCEPT !.workbench_roles = branch.table]
         [] action = "agent-roles" ->
                plain(AgentRolesBranch(rm, mcp, wbs, tbl, command, parts))
         [] action = "coverage" ->
                IF rm
                THEN plain(Answer(Result("coverage_report",
                                         get_workbench_coverage_report(wbs, tbl)),
                                  <<[op |-> "get_workbench_coverage_report"]>>))
                ELSE plain(Answer(NotAvailable, <<>>))
         [] action = "agent-workbench-summary" ->
                IF rm
                THEN [plain(SummaryBranch(rm, wbs, tbl, tasks))
                        EXCEPT !.last_command_context = "agent_workbench_summary"]
                ELSE plain(SummaryBranch(rm, wbs, tbl, tasks))
         [] action = "llm-status" ->
                IF self.llm_processor
                THEN plain(Answer(Result("llm_status",
                                         [available |-> self.llm_available,
                                          conversation_length |->
                                              Len(self.conversation_history)]), <<>>))
                ELSE plain(Answer(NoLlm, <<>>))
         [] action = "llm-toggle" ->
                IF self.llm_processor
                THEN [plain(Answer(Result("llm_toggle",
                                          [enabled |-> ~self.llm_enabled]), <<>>))
                        EXCEPT !.llm_enabled = ~self.llm_enabled]
                ELSE plain(Answer(NoLlm, <<>>))
         [] action = "llm-clear" ->
                IF self.llm_processor
                THEN [plain(Answer(Result("llm_clear", NoData), <<>>))
                        EXCEPT !.conversation_history = <<>>]
                ELSE plain(Answer(NoLlm, <<>>))

max_history == 10

\* _update_conversation_history: the exchange is appended and the newest
\* max_history exchanges are kept
update_conversation_history(history, user_message) ==
    LET longer == Append(history, user_message) IN
    IF Len(longer) > max_history
    THEN SubSeq(longer, Len(longer) - max_history + 1, Len(longer))
    ELSE longer

\* what the provider's call does: it raises, or its text holds no command
\* (llm_response) or some commands (llm_with_commands)
LlmReplies == {"raises", "llm_response", "llm_with_commands"}

FallbackToRules(history) == [fallback_to_rules |-> TRUE, type |-> "", history |-> history]

\* variant of process_with_llm: the exchange is put into the history before
\* the provider is called
process_with_llm_remembering(self, user_message, reply) ==
    IF ~self.llm_available THEN FallbackToRules(self.conversation_history)
    ELSE IF self.last_command_context # "empty" \/ reply \notin {"llm_response", "llm_with_commands"}
    THEN FallbackToRules(update_conversation_history(self.conversation_history,
                                                     user_message))
    ELSE [fallback_to_rules |-> FALSE, type |-> reply,
          history |-> update_conversation_history(self.conversation_history,
                                                  user_message)]

\* LLMCommandProcessor.process_with_llm: the dict returned and the
\* conversation history afterwards. json.dumps of a context that is not
\* empty raises TypeError (the context holds a datetime), inside the try.
process_with_llm(self, user_message, reply) ==
    IF ~self.llm_available THEN FallbackToRules(self.conversation_history)
    ELSE IF self.last_command_context # "empty" \/ reply \notin {"llm_response", "llm_with_commands"}
    THEN FallbackToRules(self.conversation_history)
    ELSE [fallback_to_rules |-> FALSE, type |-> reply,
          history |-> update_conversation_history(self.conversation_history,
                                                  user_message)]

\* the dict returned when the LLM answered: llm_response as it is,
\* llm_with_commands through _process_llm_with_commands, which only
\* normalizes the commands found
LlmAnswer(type) ==
    IF type = "llm_with_commands"
    THEN Result("llm_with_executed_commands", NoData)
    ELSE Result("llm_response", NoData)

\* how the LLM took part in a call of process_command
LlmPart(self, command, reply) ==
    IF ~(self.llm_enabled /\ self.llm_processor) THEN "unused"
    ELSE IF process_with_llm(self, command, reply).fallback_to_rules THEN "failed"
    ELSE "answered"

\* process_command: the LLM first when it is enabled, the rules when it is
\* not or when it asks to fall back
process_command(self, wbs, tbl, tasks, command, user, reply) ==
    LET llm_result == IF self.llm_enabled /\ self.llm_processor
                      THEN process_with_llm(self, command, reply)
                      ELSE FallbackToRules(self.conversation_history)
        kept == [self EXCEPT !.conversation_history = llm_result.history]
    IN IF llm_result.fallback_to_rules
       THEN rule_based_processing(kept, wbs, tbl, tasks, command, user)
       ELSE [Outcome(Answer(LlmAnswer(llm_result.type), <<>>), self, tbl)
               EXCEPT !.conversation_history = llm_result.history]

\* the provider has something to do only when process_with_llm reaches it
ProviderReplies(self) ==
    IF self.llm_enabled /\ self.llm_processor /\ self.llm_available
       /\ self.last_command_context = "empty"
    THEN LlmReplies ELSE {"not called"}

\* the manager of the state
Self ==
    Manager(role_manager, mcp_client, llm_processor, llm_enabled, llm_available,
            conversation_history, last_command_context)

\* LLM_INTEGRATION_AVAILABLE is False: no processor, nothing enabled
NoLlmProcessor ==
    /\ llm_processor = FALSE
    /\ llm_enabled = FALSE
    /\ llm_available = FALSE
    /\ conversation_history = <<>>
    /\ last_command_context = "empty"

\* the role manager may be missing (its import or its construction failed)
ManagerMayLack ==
    /\ role_manager \in BOOLEAN
    /\ mcp_client = TRUE
    /\ NoLlmProcessor

\* a command has been typed
ChatInit ==
    /\ ManagerMayLack
    /\ \E command \in Commands :
           chat_call = [op |-> "typed", command |-> command, n |-> 1]

\* process_command on the command typed
ProcessCommand ==
    \E reply \in ProviderReplies(Self) :
        /\ chat_call.op = "typed"
        /\ LET out == process_command(Self, workbench, workbench_roles, usertaskinfo,
                                      chat_call.command, "Anonymous", reply)
           IN /\ chat_call' = [op |-> "process_command", command |-> chat_call.command,
                               n |-> chat_call.n,
                               result |-> out.result, calls |-> out.calls,
                               llm |-> LlmPart(Self, chat_call.command, reply)]
              /\ workbench_roles' = out.workbench_roles
              /\ llm_enabled' = out.llm_enabled
              /\ conversation_history' = out.conversation_history
              /\ last_command_context' = out.last_command_context
        /\ UNCHANGED <<role_manager, mcp_client, llm_processor, llm_available,
                       workbench, role_call, rpcVars, wsVars>>

(***************************************************************************)
(* web_chat_interface.py: websocket_endpoint and the ConnectionManager's   *)
(* list of connections. A socket's position: "idle" (no connection yet),   *)
(* "welcome", "prompts", "receive", "respond" while the handler runs,      *)
(* "closed" after WebSocketDisconnect was caught, "failed" after accept    *)
(* raised, "crashed" after another exception left the handler.             *)
(***************************************************************************)
MaxFrames == 2

Sockets == {"ws1", "ws2"}
Running == {"welcome", "prompts", "receive", "respond"}

\* the "message" of the JSON objects received; <<>> also stands for an
\* object without that key
WsCommands == {<<>>, <<"roles", "3">>, <<"please">>}

\* what receive_text and json.loads make of a frame
Frames ==
    {[kind |-> "object", command |-> c] : c \in WsCommands}
    \cup {[kind |-> "invalid_json"], [kind |-> "non_object"], [kind |-> "disconnect"]}

\* send_text: the message goes out, or the connection is gone and the
\* framework raises WebSocketDisconnect or another exception
SendOutcomes == {"sent", "WebSocketDisconnect", "RuntimeError"}

\* list.remove(x): the first occurrence goes
Remove(seq, x) ==
    LET first == CHOOSE i \in 1..Len(seq) : seq[i] = x /\ \A j \in 1..(i - 1) : seq[j] # x
    IN SubSeq(seq, 1, first - 1) \o SubSeq(seq, first + 1, Len(seq))

WsInit ==
    /\ active_connections = <<>>
    /\ ws_pc = [s \in Sockets |-> "idle"]
    /\ ws_command = [s \in Sockets |-> <<>>]
    /\ ws_received = [s \in Sockets |-> <<>>]
    /\ ws_sent = [s \in Sockets |-> <<>>]

\* except WebSocketDisconnect: manager.disconnect(websocket)
Disconnected(s) ==
    /\ active_connections' = Remove(active_connections, s)
    /\ ws_pc' = [ws_pc EXCEPT ![s] = "closed"]

\* an exception no except clause of websocket_endpoint names
Escaped(s) ==
    /\ ws_pc' = [ws_pc EXCEPT ![s] = "crashed"]
    /\ UNCHANGED active_connections

\* manager.send_personal_message(json.dumps(message), websocket)
Send(s, message, next, outcome) ==
    CASE outcome = "sent" ->
            /\ ws_sent' = [ws_sent EXCEPT ![s] = Append(@, message)]
            /\ ws_pc' = [ws_pc EXCEPT ![s] = next]
            /\ UNCHANGED active_connections
      [] outcome = "WebSocketDisconnect" -> Disconnected(s) /\ UNCHANGED ws_sent
      [] outcome = "RuntimeError" -> Escaped(s) /\ UNCHANGED ws_sent

\* manager.connect: accept, then append
Connect ==
    \E s \in Sockets, accepted \in BOOLEAN :
        /\ ws_pc[s] = "idle"
        /\ IF accepted
           THEN /\ active_connections' = Append(active_connections, s)
                /\ ws_pc' = [ws_pc EXCEPT ![s] = "welcome"]
           ELSE /\ ws_pc' = [ws_pc EXCEPT ![s] = "failed"]
                /\ UNCHANGED active_connections
        /\ UNCHANGED <<ws_command, ws_received, ws_sent, notWs>>

SendWelcome ==
    \E s \in Sockets, outcome \in SendOutcomes :
        /\ ws_pc[s] = "welcome"
        /\ Send(s, [type |-> "system"], "prompts", outcome)
        /\ UNCHANGED <<ws_command, ws_received, notWs>>

SendPrompts ==
    \E s \in Sockets, outcome \in SendOutcomes :
        /\ ws_pc[s] = "prompts"
        /\ Send(s, [type |-> "suggested_prompts"], "receive", outcome)
        /\ UNCHANGED <<ws_command, ws_received, notWs>>

\* data = await websocket.receive_text(); message_data = json.loads(data);
\* command = message_data.get("message", "")
Receive ==
    \E s \in Sockets, frame \in Frames :
        /\ ws_pc[s] = "receive"
        /\ CASE frame.kind = "object" ->
                    /\ Len(ws_received[s]) < MaxFrames
                    /\ ws_command' = [ws_command EXCEPT ![s] = frame.command]
                    /\ ws_received' = [ws_received EXCEPT ![s] = Append(@, frame)]
                    /\ ws_pc' = [ws_pc EXCEPT ![s] = "respond"]
                    /\ UNCHANGED active_connections
             [] frame.kind = "disconnect" ->
                    Disconnected(s) /\ UNCHANGED <<ws_command, ws_received>>
             [] frame.kind \in {"invalid_json", "non_object"} ->
                    /\ ws_received' = [ws_received EXCEPT ![s] = Append(@, frame)]
                    /\ Escaped(s)
                    /\ UNCHANGED ws_command
        /\ UNCHANGED <<ws_sent, notWs>>

\* process_command, then the response envelope is sent
Respond ==
    \E s \in Sockets, outcome \in SendOutcomes, reply \in ProviderReplies(Self) :
        /\ ws_pc[s] = "respond"
        /\ LET out == process_command(Self, workbench, workbench_roles, usertaskinfo,
                                      ws_command[s], s, reply)
           IN /\ Send(s, [type |-> "response", command |-> ws_command[s],
                          result |-> out.result],
                      "receive", outcome)
              /\ workbench_roles' = out.workbench_roles
              /\ llm_enabled' = out.llm_enabled
              /\ conversation_history' = out.conversation_history
              /\ last_command_context' = out.last_command_context
        /\ UNCHANGED <<ws_command, ws_received, workbench, role_call, rpcVars,
                       role_manager, mcp_client, chat_call, llm_processor,
                       llm_available>>

(***************************************************************************)
(* Specifications                                                          *)
(***************************************************************************)
\* a ConnectionManager that has its role manager and its MCP client
ManagerInit ==
    /\ role_manager = TRUE
    /\ mcp_client = TRUE
    /\ NoLlmProcessor
    /\ chat_call = [op |-> "none"]

Init == RoleInit /\ RpcInit /\ ManagerInit /\ WsInit

Next ==
    \/ AssignWorkbenchRole
    \/ RemoveWorkbenchRole
    \/ GetWorkbenchRoleAssignments
    \/ GetWorkbenchCoverageReport

Spec == Init /\ [][Next]_vars

NextRpc == ClientCall \/ RawPost \/ HandleRpc \/ ClientReceive \/ ClientDone

SpecRpc == Init /\ [][NextRpc]_vars

InitChat == RoleInit /\ RpcInit /\ ChatInit /\ WsInit

NextChat == ProcessCommand

SpecChat == InitChat /\ [][NextChat]_vars

NextWs == Connect \/ SendWelcome \/ SendPrompts \/ Receive \/ Respond

InitWs ==
    /\ RoleInit /\ RpcInit /\ WsInit
    /\ ManagerMayLack
    /\ chat_call = [op |-> "none"]

SpecWs == InitWs /\ [][NextWs]_vars

\* a chat session: the commands typed one after the other
MaxCommands == 2

Names == {"ashish", "chitra"}

SessionCommands ==
    {<<"workbenches">>, <<"list", "workbenches">>, <<"show", "workbenches">>,
     <<"status", "5", "ashish", "completed">>, <<"status", "5">>,
     <<"llm-toggle">>, <<"roles", "1">>,
     <<"assign-role", "ashish", "1", "Team", "Lead">>}
    \cup {<<"agent-roles", x>> : x \in Names}
    \cup {<<"show", "agent", "roles", x>> : x \in Names}
    \cup {<<"assign-role", a, "1", r>> : a \in Names, r \in {"Assessor", "Reviewer", "Viewer"}}

\* the processor exists when llm_integration can be imported; it is enabled
\* at the start exactly when a provider is available
SessionInit ==
    /\ RoleInit /\ RpcInit /\ WsInit
    /\ role_manager \in BOOLEAN
    /\ mcp_client = TRUE
    /\ llm_processor \in BOOLEAN
    /\ llm_available \in {b \in BOOLEAN : b => llm_processor}
    /\ llm_enabled = llm_available
    /\ conversation_history = <<>>
    /\ last_command_context = "empty"
    /\ chat_call = [op |-> "none", n |-> 0]

TypeCommand ==
    \E command \in SessionCommands :
        /\ chat_call.op # "typed"
        /\ chat_call.n < MaxCommands
        /\ chat_call' = [op |-> "typed", command |-> command, n |-> chat_call.n + 1]
        /\ UNCHANGED <<role_manager, mcp_client, llmVars, notChat>>

NextSession == TypeCommand \/ ProcessCommand

SpecSession == SessionInit /\ [][NextSession]_vars

(***************************************************************************)
(* Properties of the JSON-RPC dispatcher (checked under SpecRpc)           *)
(***************************************************************************)
MethodNotFound == [kind |-> "error", code |-> -32601, message |-> "Method not found"]

\* the request in flight names a method that is none of the twelve
UnknownMethodRequested ==
    /\ rpc_pc # "idle"
    /\ rpc_request.has_method
    /\ rpc_request.method \notin KnownMethods

\* C1: every request whose method name is none of the twelve dispatched
\* names is answered with error code -32601, a null result and the request's
\* id, changes no table row, and makes the client's _sync_rpc_call raise.
C1_UnknownMethodRejected ==
    [][/\ (rpc_pc = "posted" /\ UnknownMethodRequested) =>
            /\ rpc_response'.http = 200
            /\ rpc_response'.error = MethodNotFound
            /\ rpc_response'.result = NullResult
            /\ rpc_response'.id = rpc_request.id
            /\ usertaskinfo' = usertaskinfo
       /\ (rpc_pc = "responded" /\ UnknownMethodRequested) =>
            rpc_outcome'.raised]_vars

\* the request in flight reaches a handler, and the handler raises
HandlerRaises ==
    /\ rpc_pc = "posted"
    /\ Validates(rpc_request)
    /\ rpc_request.method \in KnownMethods
    /\ Invoke(usertaskinfo, rpc_request.method,
              IF rpc_request.params.kind = "dict"
              THEN rpc_request.params ELSE NoParams).raised

RaisedText ==
    Invoke(usertaskinfo, rpc_request.method,
           IF rpc_request.params.kind = "dict"
           THEN rpc_request.params ELSE NoParams).text

\* C2: when the handler of a known method raises, the response carries error
\* code -32000 with the exception's text as message, a null result and the
\* id of the request.
C2_HandlerErrorReported ==
    [][HandlerRaises =>
        /\ rpc_response'.http = 200
        /\ rpc_response'.error =
                [kind |-> "error", code |-> -32000, message |-> RaisedText]
        /\ rpc_response'.result = NullResult
        /\ rpc_response'.id = rpc_request.id]_vars

\* update_task_status of a task id that has no row was answered
C2_TaskNotFoundAnswered ==
    /\ rpc_pc = "responded"
    /\ rpc_request.method = "update_task_status"
    /\ rpc_request.id = "1"
    /\ rpc_response.http = 200
    /\ rpc_response.error.kind = "error"
    /\ rpc_response.error.message = "404: Task not found"
    /\ usertaskinfo # <<>>

(***************************************************************************)
(* Properties of the role manager (checked under Spec)                     *)
(***************************************************************************)
\* how often the listing res (a result of get_workbench_role_assignments)
\* has agent a under role r
TimesIn(res, a, r) ==
    IF res.kind # "dict" THEN 0
    ELSE LET under == res.roles[r]
         IN Cardinality({i \in 1..Len(under) : under[i].agent = a})

TimesListed(a, w, r) ==
    TimesIn(get_workbench_role_assignments(workbench, workbench_roles, w), a, r)

Listed(a, w, r) == TimesListed(a, w, r) > 0

\* C3: on an existing workbench, after assign_workbench_role(a, w, r) returned
\* True the agent is listed under the role for as long as no
\* remove_workbench_role(a, w, r) runs, and right after that remove returned
\* True the agent is no longer listed under the role.
C3_RoleRoundTrip ==
    [][/\ (role_call.op = "assign" /\ role_call.ret =>
            Listed(role_call.agent, role_call.workbench_id, role_call.role))'
       /\ (role_call.op = "remove" /\ role_call.ret =>
            ~Listed(role_call.agent, role_call.workbench_id, role_call.role))'
       \* the listings read the two tables only: a step that keeps the
       \* tables keeps the listings
       /\ <<workbench, workbench_roles>>' # <<workbench, workbench_roles>> =>
          \A w \in AssignWorkbenchArgs :
            LET before == get_workbench_role_assignments(workbench, workbench_roles, w)
                after == get_workbench_role_assignments(workbench', workbench_roles', w)
            IN \A a \in Agents, r \in StandardRoleSet :
                (TimesIn(before, a, r) > 0 /\ ~RemoveStep(a, w, r))
                    => TimesIn(after, a, r) > 0]_vars

\* a role was assigned, listed, and removed again while another stayed
C3_RemovedAfterListed ==
    /\ role_call.op = "remove"
    /\ role_call.ret
    /\ ~Listed(role_call.agent, role_call.workbench_id, role_call.role)
    /\ \E r \in StandardRoleSet :
            Listed(role_call.agent, role_call.workbench_id, r)

ActiveAssignment(tbl, a, w, r) ==
    \E i \in 1..Len(tbl) : Matches(tbl[i], w, a, r) /\ tbl[i].is_active = 1

filled_roles(tbl, w) ==
    Cardinality({r \in StandardRoleSet :
        \E i \in 1..Len(tbl) :
            tbl[i].workbench_id = w /\ tbl[i].is_active = 1 /\ tbl[i].role = r})

\* C6: in every coverage report gaps = 4 - min(filled_roles, 4), filled_roles
\* being the number of distinct standard roles with an active assignment.
C6_GapsCountDistinctRoles ==
    role_call.op = "coverage" =>
        \A i \in 1..Len(role_call.ret.workbenches) :
            LET e == role_call.ret.workbenches[i]
            IN e.gaps = 4 - Min(filled_roles(workbench_roles, e.workbench_id), 4)

\* C7: in every coverage report coverage_percentage is the number of distinct
\* filled roles / 4 * 100, and never exceeds 100.
C7_PercentageOfDistinctRoles ==
    role_call.op = "coverage" =>
        \A i \in 1..Len(role_call.ret.workbenches) :
            LET e == role_call.ret.workbenches[i]
            IN /\ e.coverage_percentage =
                    (filled_roles(workbench_roles, e.workbench_id) * 100) \div 4
               /\ e.coverage_percentage <= 100

\* the coverage_percentage the report gives workbench wb on table tbl
ReportedPercentage(wb, tbl) ==
    LET report == get_workbench_coverage_report(workbench, tbl)
        i == CHOOSE k \in 1..Len(report.workbenches) :
                report.workbenches[k].workbench_id = wb.id
    IN report.workbenches[i].coverage_percentage

\* C8: a successful assign_workbench_role that fills a role without active
\* assignment in the workbench never lowers any workbench's
\* coverage_percentage from the report before the call to the report after.
C8_CoverageMonotonic ==
    [][\A a \in Agents, w \in AssignWorkbenchArgs, r \in StandardRoleSet :
        (/\ AssignStep(a, w, r)
         /\ role_call'.ret
         /\ \A b \in Agents : ~ActiveAssignment(workbench_roles, b, w, r))
        => \A wb \in workbench :
              ReportedPercentage(wb, workbench_roles') >=
              ReportedPercentage(wb, workbench_roles)]_vars

\* a vacant role was filled in a workbench that had another role filled
C8_VacantRoleFilled ==
    /\ role_call.op = "assign"
    /\ role_call.ret
    /\ Len(workbench_roles) = 2
    /\ workbench_roles[1].is_active = 1
    /\ workbench_roles[1].role # workbench_roles[2].role
    /\ ReportedPercentage(WorkbenchRow(workbench, role_call.workbench_id),
                          workbench_roles) = 50

(***************************************************************************)
(* Properties of the command normalizer (checked under SpecChat)           *)
(***************************************************************************)
Processed == chat_call.op = "process_command"

ActionOf(command) == normalize_command(lower(command), command)

\* the words roles and 3 stand next to each other, from position i on
Roles3At(command, i) ==
    /\ i < Len(command)
    /\ command[i] = "roles"
    /\ command[i + 1] = "3"

HasRoles3(command) == \E i \in 1..Len(command) : Roles3At(command, i)

NoInteger(command) == \A i \in 1..Len(command) : Numbers(command[i]) = <<>>

\* the roles action answers a command without integer with the error and
\* asks the role manager nothing
NoIdNoQuery ==
    (Processed /\ ActionOf(chat_call.command) = "roles" /\ NoInteger(chat_call.command))
        => /\ chat_call.result = SpecifyWorkbench
           /\ chat_call.calls = <<>>

PhrasesBeforeRoles ==
    StatusPhrases \cup ContextPhrases \cup CountAgentsPhrases
    \cup CountWorkbenchesPhrases \cup DetailsPhrases \cup WhatAgentsPhrases
    \cup WhatWorkbenchesPhrases \cup ListWorkbenchesPhrases \cup ListAgentsPhrases
PhrasesAfterRoles ==
    CoveragePhrases \cup AgentRolesPhrases \cup CreateAgentPhrases
    \cup CreateWorkbenchPhrases \cup CreateWorkflowPhrases \cup CreateTaskPhrases
    \cup AssignRolePhrases

\* text around "roles 3" that leaves the action and the id alone: no number
\* before the 3, no phrase tested before the roles phrases, and a roles
\* phrase, or roles as first word and no phrase tested after them
Roles3Kept(command) ==
    /\ \E i \in 1..Len(command) :
            /\ Roles3At(command, i)
            /\ \A j \in 1..(i - 1) : Numbers(command[j]) = <<>>
    /\ ~AnyIn(lower(command), PhrasesBeforeRoles)
    /\ \/ AnyIn(lower(command), RolesPhrases)
       \/ Lower(command[1]) = "roles" /\ ~AnyIn(lower(command), PhrasesAfterRoles)

Connected(s) == \E i \in 1..Len(active_connections) : active_connections[i] = s

\* C10: a socket whose connection has ended (client disconnect, a frame
\* that is not valid JSON, a JSON frame that is not an object, a send
\* failure) is not in active_connections: the list holds exactly the sockets
\* whose handler loop is running.
C10_ActiveAreRunning ==
    \A s \in Sockets : Connected(s) <=> ws_pc[s] \in Running

\* the messages the claimed protocol has sent once the frames were answered:
\* welcome, suggested prompts, then one response per frame, in order
Envelopes(frames) ==
    <<"system", "suggested_prompts">> \o [i \in 1..Len(frames) |-> "response"]

IsPrefix(a, b) == Len(a) <= Len(b) /\ \A i \in 1..Len(a) : a[i] = b[i]

TypesSent(s) == [i \in 1..Len(ws_sent[s]) |-> ws_sent[s][i].type]

\* the i-th response sent on s carries the command of the i-th frame received
CarriesCommand(s, i) ==
    /\ i <= Len(ws_received[s])
    /\ ws_received[s][i].kind = "object"
    /\ ws_sent[s][i + 2].command = ws_received[s][i].command

InProtocolOrder(s) ==
    /\ IsPrefix(TypesSent(s), Envelopes(ws_received[s]))
    /\ \A i \in 1..(Len(ws_sent[s]) - 2) : CarriesCommand(s, i)

\* C11: on every connection the welcome message is sent first, then the
\* suggested prompts, before any response; every text frame received is
\* handed on to be answered by one response envelope that carries the
\* frame's command, and the responses go out in the order of the frames.
C11_WelcomePromptsThenOneResponsePerFrame ==
    [][\A s \in Sockets :
          /\ InProtocolOrder(s)'
          /\ Len(ws_received'[s]) > Len(ws_received[s]) => ws_pc'[s] = "respond"
          /\ (ws_pc[s] = "respond" /\ ws_pc'[s] = "receive") =>
                 Len(ws_sent'[s]) = Len(ws_received'[s]) + 2]_vars
(***************************************************************************)
(* Properties of a chat session (checked under SpecSession)                *)
(***************************************************************************)
\* a step of process_command on the command typed
Processing == chat_call.op = "typed" /\ chat_call'.op = "process_command"

RulesAlone ==
    rule_based_processing(Self, workbench, workbench_roles, usertaskinfo,
                          chat_call.command, "Anonymous")

LlmErrors == {Error("LLM not available"), Error("LLM error"), Error("Unknown LLM provider")}

\* C12: when LLM processing is enabled and the LLM call fails (no provider
\* available, the provider's call raises, building the request raises),
\* process_command returns what rule-based processing returns for the
\* command, never the LLM's error, and the conversation history is left as
\* it was.
C12_LlmFailureFallsBack ==
    [][(Processing /\ chat_call'.llm = "failed") =>
          /\ chat_call'.result = RulesAlone.result
          /\ chat_call'.calls = RulesAlone.calls
          /\ chat_call'.result \notin LlmErrors
          /\ conversation_history' = conversation_history]_vars

\* the LLM answered one command and failed on "roles 1", which the rules
\* answered
C12_RolesAnsweredAfterLlmFailure ==
    /\ chat_call.op = "process_command"
    /\ chat_call.llm = "failed"
    /\ chat_call.command = <<"roles", "1">>
    /\ chat_call.result.kind = "result"
    /\ chat_call.result.type = "workbench_roles"
    /\ Len(conversation_history) = 1
\* process_command has answered the command by its rules
AnsweredByRules(command) ==
    /\ chat_call.op = "process_command"
    /\ chat_call.llm # "answered"
    /\ chat_call.command = command

\* C13: each of the commands "workbenches", "list workbenches" and
\* "show workbenches" is normalized to the workbenches action, and
\* process_command answers it with the list of all workbenches (result type
\* workbenches).
C13_WorkbenchesCommandsListWorkbenches ==
    \A command \in {<<"workbenches">>, <<"list", "workbenches">>,
                    <<"show", "workbenches">>} :
        AnsweredByRules(command) =>
            /\ normalize_command(lower(command), command) = "workbenches"
            /\ chat_call.result.kind = "result"
            /\ chat_call.result.type = "workbenches"
SpecifyStatus == Error("Please specify task ID, agent, and status")

\* C14: with rule-based processing and an MCP client, the command
\* "status <task_id> <agent> <status>" with an integer task id makes
\* process_command call update_task_status(task_id, agent, status) and
\* return a status_update result; with fewer than three arguments it returns
\* the error that asks for task ID, agent and status.
C14_StatusCommandUpdatesTask ==
    /\ (AnsweredByRules(<<"status", "5", "ashish", "completed">>) /\ mcp_client) =>
          /\ chat_call.result.kind = "result"
          /\ chat_call.result.type = "status_update"
          /\ chat_call.calls = <<[op |-> "mcp_client.update_task_status", task_id |-> 5,
                                  agent |-> "ashish", status |-> "completed"]>>
    /\ (AnsweredByRules(<<"status", "5">>) /\ mcp_client) =>
          chat_call.result = SpecifyStatus
\* C15: for every agent name X, both "agent-roles X" and
\* "show agent roles X" are normalized to the agent-roles action, and the
\* agent whose roles are looked up is X.
C15_AgentRolesOfNamedAgent ==
    \A x \in Names :
        \A command \in {<<"agent-roles", x>>, <<"show", "agent", "roles", x>>} :
            (AnsweredByRules(command) /\ role_manager) =>
                /\ normalize_command(lower(command), command) = "agent-roles"
                /\ extract_agent_name(command, command) = x
                /\ chat_call.calls = <<[op |-> "get_agent_workbench_roles", agent |-> x]>>
\* the words of a role written as in the taxonomy
RoleWords(role) == IF role = "Team Lead" THEN <<"Team", "Lead">> ELSE <<role>>

AssignRoleCommand(a, role) == <<"assign-role", a, "1">> \o RoleWords(role)

\* C16: for every standard role, agent a and workbench w, the command
\* "assign-role a w <role>" calls assign_workbench_role(a, w, role) with
\* exactly that role; when no such assignment exists yet, a role_assignment
\* result is returned and an active assignment of the role is left.
C16_AssignRoleCommandAssigns ==
    [][\A a \in Names, role \in StandardRoleSet :
          (/\ Processing
           /\ chat_call.command = AssignRoleCommand(a, role)
           /\ chat_call'.llm # "answered"
           /\ role_manager) =>
              /\ chat_call'.calls = <<[op |-> "assign_workbench_role", agent |-> a,
                                      workbench_id |-> 1, role |-> role]>>
              /\ ~ActiveAssignment(workbench_roles, a, 1, role) =>
                    /\ chat_call'.result.kind = "result"
                    /\ chat_call'.result.type = "role_assignment"
                    /\ ActiveAssignment(workbench_roles', a, 1, role)]_vars
\* C17: whenever an LLM processor exists, the command "llm-toggle" inverts
\* llm_enabled and reports the new value: from a state in which LLM
\* processing is enabled it leads to one in which it is disabled, and two
\* of them in a row restore the value.
C17_ToggleInvertsEnabled ==
    [][(Processing /\ chat_call.command = <<"llm-toggle">> /\ llm_processor) =>
          /\ llm_enabled' = ~llm_enabled
          /\ chat_call'.result = Result("llm_toggle", [enabled |-> llm_enabled'])]_vars

(***************************************************************************)
(* Properties of the task handlers behind /rpc (checked under SpecRpc)     *)
(***************************************************************************)
\* update_task_status has just been answered, and the call the client made
\* right before it was an assign_task of the same task id
UpdatedRightAfterAssign ==
    /\ rpc_pc = "responded"
    /\ rpc_request.method = "update_task_status"
    /\ rpc_request.params.kind = "dict"
    /\ rpc_request.params.keys \subseteq {"task_id", "agent", "status"}
    /\ "task_id" \in rpc_request.params.keys
    /\ rpc_previous.kind = "assign_task"
    /\ rpc_previous.params.task_id = rpc_request.params.task_id

\* C18: after assign_task(agent, t) immediately followed by
\* update_task_status(t, agent, s), the row that this assign_task inserted
\* has status s (and a completed_at timestamp when s is "completed"), and
\* the value update_task_status returns is that row; also when other rows
\* with task id t existed before.
C18_UpdateReachesTheAssignedRow ==
    UpdatedRightAfterAssign =>
        LET row == usertaskinfo[rpc_previous.row]
            s == Arg(rpc_request.params, "status", "completed")
        IN /\ row.status = s
           /\ s = "completed" => row.completed_at # None
           /\ rpc_response.http = 200
           /\ rpc_response.result = [kind |-> "value", value |-> row]

\* the request in flight is update_task_status of a task id that no
\* assign_task of the model ever gives to a task
UpdateOfUnassignedId ==
    /\ rpc_request.has_method
    /\ rpc_request.method = "update_task_status"
    /\ rpc_request.params.kind = "dict"
    /\ rpc_request.params.keys \subseteq {"task_id", "agent", "status"}
    /\ "task_id" \in rpc_request.params.keys
    /\ rpc_request.params.task_id \notin TaskIdArgs

\* C19: update_task_status with task id -1, or with any other id that no
\* assign_task gave to a task, is answered with an RPC error, makes the
\* client raise, and leaves every usertaskinfo row as it was, the
\* agent-registration and role rows included.
C19_UnassignedIdRejected ==
    [][/\ (rpc_pc = "posted" /\ UpdateOfUnassignedId) =>
            /\ rpc_response'.http = 200
            /\ rpc_response'.error.kind = "error"
            /\ usertaskinfo' = usertaskinfo
       /\ (rpc_pc = "responded" /\ UpdateOfUnassignedId) =>
            rpc_outcome'.raised]_vars

\* a body without the jsonrpc or the method field, or with params that is
\* a JSON value other than an object or null
Malformed(body) ==
    \/ ~body.has_jsonrpc
    \/ ~body.has_method
    \/ body.params.kind \notin {"dict", "null", "absent"}

\* C20: handle_rpc answers every request body with a JSON-RPC response
\* envelope, never with an uncaught exception; for a body that lacks the
\* method or the jsonrpc field, or whose params is not an object, the
\* envelope's error object is set.
C20_EveryBodyAnsweredWithEnvelope ==
    [][rpc_pc = "posted" =>
          /\ rpc_response'.http = 200
          /\ Malformed(rpc_request) => rpc_response'.error.kind = "error"]_vars

(***************************************************************************)
(* Further properties of the role manager (checked under Spec)             *)
(***************************************************************************)
\* missing_roles of get_workbench_role_assignments(w) on the present tables
MissingRoles(w) ==
    get_workbench_role_assignments(workbench, workbench_roles, w).missing_roles

\* C21: in every coverage report the gaps of each workbench equal the length
\* of the missing_roles list get_workbench_role_assignments returns for it,
\* and fully_covered_workbenches counts exactly the workbenches whose
\* missing_roles list is empty.
C21_GapsAreMissingRoles ==
    role_call.op = "coverage" =>
        /\ \A i \in 1..Len(role_call.ret.workbenches) :
              LET e == role_call.ret.workbenches[i]
              IN /\ e.gaps = Len(MissingRoles(e.workbench_id))
                 /\ e.gaps = 0 <=> MissingRoles(e.workbench_id) = <<>>
        /\ role_call.ret.fully_covered_workbenches =
              Cardinality({wb \in workbench : MissingRoles(wb.id) = <<>>})

\* C23: assign_workbench_role with a role outside the four standard roles
\* (a differently-cased spelling such as "assessor" included) raises and
\* inserts no row; so every row of workbench_roles has a standard role and
\* get_workbench_role_assignments never fails on an unknown role key.
C23_NonStandardRoleRefused ==
    [][/\ \A a \in Agents, w \in AssignWorkbenchArgs, r \in RoleArgs \ StandardRoleSet :
            AssignStep(a, w, r) =>
                /\ role_call'.raised = "ValueError"
                /\ workbench_roles' = workbench_roles
       \* the table starts empty: no step brings in another role
       /\ \A i \in 1..Len(workbench_roles') :
            workbench_roles'[i].role \in StandardRoleSet
       /\ \A w \in WorkbenchArgs :
            get_workbench_role_assignments(workbench', workbench_roles', w).kind
                # "KeyError"]_vars

\* "assessor" was refused on a table that holds assignments
C23_LowerCaseRoleRaised ==
    /\ role_call.op = "assign"
    /\ role_call.role = "assessor"
    /\ role_call.raised = "ValueError"
    /\ workbench_roles # <<>>
    /\ get_workbench_role_assignments(workbench, workbench_roles,
                                      role_call.workbench_id).kind = "dict"

\* the active rows of the triple
ActiveMatching(tbl, a, w, r) ==
    {i \in 1..Len(tbl) : Matches(tbl[i], w, a, r) /\ tbl[i].is_active = 1}

JustRemoved(a, w, r) ==
    /\ role_call.op = "remove"
    /\ role_call.ret
    /\ role_call.agent = a
    /\ role_call.workbench_id = w
    /\ role_call.role = r

Requested(method) ==
    /\ rpc_pc # "idle"
    /\ rpc_request.method = method
    /\ rpc_request.params \in ClientParams(method)

HasRowOf(tbl, agent) == \E i \in 1..Len(tbl) : tbl[i].agent = agent

\* C22: create_agent of a name without usertaskinfo row inserts exactly one
\* placeholder row (task_id -1, status agent_created) and returns status
\* created; of a name that has a row it returns status already_exists and
\* leaves the table as it is; so repeating the call leaves the table that
\* one call leaves.
C22_CreateAgentIdempotent ==
    [][(rpc_pc = "posted" /\ Requested("create_agent")) =>
        LET a == rpc_request.params.agent IN
        /\ rpc_response'.http = 200
        /\ rpc_response'.error = NoError
        /\ IF HasRowOf(usertaskinfo, a)
           THEN /\ usertaskinfo' = usertaskinfo
                /\ rpc_response'.result.value.status = "already_exists"
           ELSE /\ Len(usertaskinfo') = Len(usertaskinfo) + 1
                /\ SubSeq(usertaskinfo', 1, Len(usertaskinfo)) = usertaskinfo
                /\ LET new == usertaskinfo'[Len(usertaskinfo')] IN
                    /\ new.agent = a
                    /\ new.task_id = -1
                    /\ new.status = "agent_created"
                /\ rpc_response'.result.value.status = "created"
        /\ create_agent(usertaskinfo', a).table = usertaskinfo']_vars

\* create_agent was repeated for an agent whose only row is its placeholder
C22_RepeatedCreateAnswered ==
    /\ rpc_pc = "responded"
    /\ Requested("create_agent")
    /\ rpc_response.http = 200
    /\ rpc_response.result.value.status = "already_exists"
    /\ Cardinality(RowsWhere(usertaskinfo, LAMBDA t :
            t.agent = rpc_request.params.agent)) = 1
    /\ \E i \in 1..Len(usertaskinfo) :
        /\ usertaskinfo[i].agent = rpc_request.params.agent
        /\ usertaskinfo[i].task_id = -1
        /\ usertaskinfo[i].status = "agent_created"

\* what get_agent_roles(agent) returns on table tbl
RolesOf(tbl, agent) == get_agent_roles(tbl, agent).value

\* the role list has an entry of the role and the workbench id
HasRoleEntry(roles, role, workbench_id) ==
    \E i \in 1..Len(roles) :
        roles[i].role = role /\ roles[i].workbench_id = workbench_id

\* C25: for an agent with at least one usertaskinfo row and each of the four
\* roles, after assign_role(agent, role, workbench_id) the result of
\* get_agent_roles(agent) has an entry with that role name and workbench id
\* and total_roles has grown by one; for an agent without row assign_role
\* returns status error with role_assigned False and inserts nothing.
C25_RpcRoleRoundTrip ==
    [][(rpc_pc = "posted" /\ Requested("assign_role")) =>
        LET a == rpc_request.params.agent
            r == rpc_request.params.role
            w == Arg(rpc_request.params, "workbench_id", <<>>)
        IN /\ rpc_response'.http = 200
           /\ rpc_response'.error = NoError
           /\ IF HasRowOf(usertaskinfo, a)
              THEN /\ rpc_response'.result.value.status = "role_assigned"
                   /\ HasRoleEntry(RolesOf(usertaskinfo', a).roles, r, w)
                   /\ RolesOf(usertaskinfo', a).total_roles =
                        RolesOf(usertaskinfo, a).total_roles + 1
              ELSE /\ rpc_response'.result.value.status = "error"
                   /\ ~rpc_response'.result.value.role_assigned
                   /\ usertaskinfo' = usertaskinfo]_vars

\* Team Lead was assigned in workbench 1 to an agent created before
C25_TeamLeadAssignedAndListed ==
    /\ rpc_pc = "responded"
    /\ Requested("assign_role")
    /\ rpc_request.params.role = "Team Lead"
    /\ Arg(rpc_request.params, "workbench_id", <<>>) = <<1>>
    /\ rpc_response.http = 200
    /\ rpc_response.result.value.status = "role_assigned"
    /\ usertaskinfo[1].status = "agent_created"
    /\ HasRoleEntry(RolesOf(usertaskinfo, rpc_request.params.agent).roles,
                    "Team Lead", <<1>>)
    /\ RolesOf(usertaskinfo, rpc_request.params.agent).total_roles = 1

\* the names list_agents returns on table tbl when the limit is sufficient
ListedAgents(tbl) ==
    LET agents == list_agents(tbl, 100).value.agents
    IN {agents[i] : i \in 1..Len(agents)}

\* C26: an agent name that list_agents returns is returned by every later
\* list_agents call with a sufficient limit, whatever RPC operations
\* (assign_task, update_task_status, create_agent, assign_role) run between.
C26_AgentsNeverLost ==
    [][ListedAgents(usertaskinfo) \subseteq ListedAgents(usertaskinfo')]_vars
====
